---- MODULE Spec2Model ----
(***************************************************************************)
(* A model of server.js: the BackstopJS HTTP API.                          *)
(*                                                                         *)
(* State: the uploadedImages Map, the multer upload directory, the config  *)
(* file backstop.selenium.json, the tool's bitmaps_test directory, the     *)
(* diff_images directory, and for every POST /backstop request its         *)
(* position in the async handler, the promise of runBackstopCommand, the   *)
(* spawned child process and the HTTP responses sent on its connection.    *)
(*                                                                         *)
(* One action per turn of the event loop: the synchronous part of the      *)
(* POST handler up to its first await, the settling timer, the child's     *)
(* 'error' and 'close' events (each followed by the continuation of the    *)
(* handler when it settles the promise), and GET /serve-image.             *)
(***************************************************************************)
EXTENDS Integers, Sequences, FiniteSets, TLC

(* ------------------------------ bounds -------------------------------- *)

\* Number of POST /backstop requests of a run; the n-th received has id n.
MaxReqs == 3

Ids == 1..MaxReqs

\* The connections requests arrive on: as many requests can be in flight.
Conns == {"c1", "c2"}

\* Connections are interchangeable: a request takes c2 only when c1 is busy.
Before(c) == IF c = "c2" THEN {"c1"} ELSE {}

\* Test case names clients send; "" is a missing (falsy) testCase field.
TestCases == {"login", "home"}

\* Contents of uploaded image files.
Images == {"imgA", "imgB"}

\* An absent string (undefined field, no file, omitted parameter), an absent
\* object (undefined, a file that does not exist) and an absent path.
None == "none"
Absent == [ absent |-> TRUE ]
NoPath == << >>

(* ------------------------------ inputs -------------------------------- *)

\* Requests that pass validation, uploading one of the images.
ValidInputs(images) ==
    [testCase : TestCases, mode : {"reference", "current"}, file : images]

\* One request per way of failing validation: testCase missing, mode missing,
\* file missing, mode outside {reference, current}.
InvalidInputs ==
    { [testCase |-> "",      mode |-> "reference", file |-> "imgA"],
      [testCase |-> "login", mode |-> "",          file |-> "imgA"],
      [testCase |-> "login", mode |-> "current",   file |-> None],
      [testCase |-> "login", mode |-> "compare",   file |-> "imgA"] }

Inputs(images) == ValidInputs(images) \cup InvalidInputs

NoInput == [id |-> 0, testCase |-> "", mode |-> "", file |-> None]

(* ------------------------------ state --------------------------------- *)

VARIABLES
    uploadedImages,  \* the Map: key <<testCase, mode>> -> [path]
    uploadDir,       \* temp_uploads: path -> bytes of the file multer stored
    configFile,      \* backstop.selenium.json: Absent, or the config written last
    testDir,         \* backstop_data/bitmaps_test: set of file names
    referenceDir,    \* backstop_data/bitmaps_reference: label -> screenshot captured
    diffImagesDir,   \* diff_images: set of copied artifacts
    clock,           \* Date.now(), advanced by every artifact name taken
    nreq,            \* the number of POST /backstop requests received
    req,             \* per connection: req.body and req.file of its request
    pc,              \* per connection: where the handler of its request stands
    promise,         \* per connection: the promise runBackstopCommand returned
    child,           \* per connection: the child process its request spawned
    responses,       \* per connection: the responses sent to its request, in order
    ops,             \* per connection: how often its request attempted each operation
    cfgFailed,       \* per connection: whether its request's config write threw
    lastUpload,      \* per key: the id of the last request validated for it
    lastGet          \* the last GET /serve-image request and its response

vars == << uploadedImages, uploadDir, configFile, testDir, referenceDir,
           diffImagesDir, clock, nreq, req, pc, promise, child, responses, ops,
           cfgFailed, lastUpload, lastGet >>

(* --------------------------- the Image Store -------------------------- *)

\* `${testCase}_${mode}`
ImageKey(testCase, mode) == << testCase, mode >>

\* Faulty variant: the reference check left out: every key is reported present.
MapHasAlways(m, key) == TRUE

\* Faulty variant: a reference counts only once the tool has captured it.
MapHasCaptured(m, key) == key \in DOMAIN m /\ referenceDir[key[1]] # NoPath

\* uploadedImages.has(key)
MapHas(m, key) == key \in DOMAIN m

\* uploadedImages.get(key)
MapGet(m, key) == IF key \in DOMAIN m THEN m[key] ELSE Absent

\* Faulty variant: a key already present keeps its first record.
MapSetIfAbsent(m, key, value) ==
    [k \in DOMAIN m \cup {key} |-> IF k \in DOMAIN m THEN m[k] ELSE value]

\* Faulty variant: the record is not written.
MapSetDropped(m, key, value) == m

\* uploadedImages.set(key, value)
MapSet(m, key, value) ==
    [k \in DOMAIN m \cup {key} |-> IF k = key THEN value ELSE m[k]]

(* ------------------------- the Config Synthesizer --------------------- *)

\* createBackstopConfig(testCases): one scenario per name, its label the name and
\* its url the Image Server's /serve-image/<name> (no mode in the query).
createBackstopConfig(testCases) ==
    [ scenarios |-> [ i \in DOMAIN testCases |->
                        [ label |-> testCases[i],
                          url   |-> << "serve-image", testCases[i] >> ] ] ]

\* The labels of the scenarios of a config file (Absent: no file yet).
Labels(config) ==
    IF config = Absent THEN {}
    ELSE { config.scenarios[i].label : i \in DOMAIN config.scenarios }

(* --------------------------- the Image Server -------------------------- *)

\* imageBuffer.toString('base64')
Base64(bytes) == << "base64", bytes >>

\* Faulty variant: an omitted mode selects the reference record.
ServeImageDefaultReference(m, dir, testCase, mode) ==
    LET data == IF mode = "current" THEN MapGet(m, ImageKey(testCase, "current"))
                                    ELSE MapGet(m, ImageKey(testCase, "reference"))
    IN  IF data = Absent \/ dir[data.path] = None
        THEN [ status |-> 404, page |-> NoPath ]
        ELSE [ status |-> 200, page |-> Base64(dir[data.path]) ]

\* GET /serve-image/:testCase?mode=<mode>; mode None is an omitted parameter.
ServeImage(m, dir, testCase, mode) ==
    LET key1  == IF mode = "reference" THEN ImageKey(testCase, "reference")
                                       ELSE ImageKey(testCase, "current")
        data1 == MapGet(m, key1)
        data  == IF data1 = Absent /\ mode = None
                 THEN MapGet(m, ImageKey(testCase, "reference"))
                 ELSE data1
    IN  IF data = Absent \/ dir[data.path] = None
        THEN [ status |-> 404, page |-> NoPath ]
        ELSE [ status |-> 200, page |-> Base64(dir[data.path]) ]

(* --------------------------- the Command Runner ------------------------ *)

\* Faulty variant: the report token excuses a non-zero exit of either command.
ResolvesAnyCommand(command, code, stdoutHasReport) ==
    code = 0 \/ stdoutHasReport

\* Faulty variant: the report token is not consulted: only exit code 0 resolves.
ResolvesOnZeroOnly(command, code, stdoutHasReport) == code = 0

\* The 'close' handler's condition to resolve rather than reject.
Resolves(command, code, stdoutHasReport) ==
    code = 0 \/ (command = "test" /\ stdoutHasReport)

\* hasDifferences: code !== 0
HasDifferences(code) == code # 0

\* Faulty variant: every event of the child runs the continuation again.
PendingAlways(p) == TRUE

\* Faulty variant: the events of the child settle nothing.
PendingNever(p) == FALSE

\* A promise is settled once: resolve and reject act, and the awaiting handler
\* is resumed, only while the promise is pending.
Pending(p) == p = "pending"

(* ---------------------------- the Diff Locator ------------------------- *)

\* A file name of bitmaps_test, by what the locator reads of it: the test case
\* label it contains, its marker (diff, failed or neither) and its extension.
DiffFile(label) == [ label |-> label, marker |-> "diff", ext |-> "png" ]
ShotFile(label) == [ label |-> label, marker |-> "",     ext |-> "png" ]

\* The predicate of allFiles.find(...)
IsDiffOf(name, testCase) ==
    /\ name.label = testCase
    /\ name.marker \in {"diff", "failed"}
    /\ name.ext = "png"

\* path.join(diffImagesDir, `${testCase}_${timestamp}_diff.png`)
DestPath(testCase, timestamp) == << testCase, timestamp >>

NotFound == [ found |-> FALSE, path |-> NoPath, written |-> {}, threw |-> FALSE ]

\* Whether a step of the locator raises: the directory scan, or the copy or
\* the read, which run only when find() returned a file.
Raises(diffFile, thrown) ==
    \/ thrown = "readdir"
    \/ diffFile # Absent /\ thrown \in {"copy", "read"}

\* Faulty variant: the locator without its try/catch: what a step raises reaches the
\* caller.
findAndCopyDiffImageUnguarded(testCase, diffFile, timestamp, thrown) ==
    IF Raises(diffFile, thrown)
    THEN [ found |-> FALSE, path |-> NoPath, threw |-> TRUE,
           written |-> IF thrown = "read" THEN { DestPath(testCase, timestamp) }
                                          ELSE {} ]
    ELSE IF diffFile = Absent THEN NotFound
    ELSE [ found |-> TRUE, path |-> DestPath(testCase, timestamp),
           written |-> { DestPath(testCase, timestamp) }, threw |-> FALSE ]

\* findAndCopyDiffImage(testCase), given the file find() returned (Absent: no
\* match) and the step of it that raises (None: none does). written: the files
\* it copied into diff_images; threw: whether it threw to its caller, which its
\* catch block prevents.
findAndCopyDiffImage(testCase, diffFile, timestamp, thrown) ==
    IF thrown = "readdir" THEN NotFound
    ELSE IF diffFile = Absent THEN NotFound
    ELSE IF thrown = "copy" THEN NotFound
    ELSE IF thrown = "read"
         THEN [ found |-> FALSE, path |-> NoPath, threw |-> FALSE,
                written |-> { DestPath(testCase, timestamp) } ]
    ELSE [ found |-> TRUE, path |-> DestPath(testCase, timestamp),
           written |-> { DestPath(testCase, timestamp) }, threw |-> FALSE ]

\* What find() can return: any matching file (enumeration order is the file
\* system's), Absent when there is none.
FindResults(dir, testCase) ==
    LET matches == { f \in dir : IsDiffOf(f, testCase) }
    IN  IF matches = {} THEN {Absent} ELSE matches

Throws == {None, "readdir", "copy", "read"}

(* --------------------------- the HTTP responses ------------------------ *)

NoResult == [ result |-> None, diffImage |-> NoPath ]

\* res.status(400).json({success: false, message})
Resp400 == [ status |-> 400, success |-> FALSE ] @@ NoResult

\* res.status(500).json({success: false, error: error.message})
Resp500 == [ status |-> 500, success |-> FALSE ] @@ NoResult

\* res.json({success: true, message}) of the reference path
RespReference == [ status |-> 200, success |-> TRUE ] @@ NoResult

\* res.json(response) of the current path
RespCurrent(backstopResult, diffInfo) ==
    [ status |-> 200, success |-> TRUE, result |-> backstopResult,
      diffImage |-> IF diffInfo.found THEN diffInfo.path ELSE NoPath ]

\* Faulty variant: an empty catch block: the error is swallowed, nothing is sent.
CatchSwallow == << >>

\* The responses the catch block sends for a thrown error.
Catch == << Resp500 >>

(* ------------------------------ validation ----------------------------- *)

\* !testCase || !mode || !uploadedFile
MissingParams(in) == in.testCase = "" \/ in.mode = "" \/ in.file = None

\* Faulty variant: the mode check left out.
ValidModeAny(mode) == TRUE

\* ["reference", "current"].includes(mode)
ValidMode(mode) == mode \in {"reference", "current"}

(* ------------------------------- Init ---------------------------------- *)

\* No page was fetched.
NoFetch == [ status |-> 0, page |-> NoPath ]

NoChild == [ command |-> None, filter |-> None, config |-> Absent,
             state |-> "none", code |-> 0, report |-> FALSE,
             page |-> NoFetch, reference |-> NoPath ]

NoPromise == [ state |-> "none", hasDifferences |-> FALSE ]

\* raised: how often a step of the Diff Locator raised an error.
NoOps == [ store |-> 0, config |-> 0, launch |-> 0, locate |-> 0, raised |-> 0 ]

NoGet == [ testCase |-> None, mode |-> None,
           response |-> [ status |-> 0, page |-> NoPath ] ]

\* The server has started: the directories exist and are empty, the Map is
\* empty, no config file was written, no request was received.
Init ==
    /\ uploadedImages = << >>
    /\ uploadDir = [ p \in Ids |-> None ]
    /\ configFile = Absent
    /\ testDir = {}
    /\ referenceDir = [ t \in TestCases |-> NoPath ]
    /\ diffImagesDir = {}
    /\ clock = 0
    /\ nreq = 0
    /\ req = [ c \in Conns |-> NoInput ]
    /\ pc = [ c \in Conns |-> "idle" ]
    /\ promise = [ c \in Conns |-> NoPromise ]
    /\ child = [ c \in Conns |-> NoChild ]
    /\ responses = [ c \in Conns |-> << >> ]
    /\ ops = [ c \in Conns |-> NoOps ]
    /\ cfgFailed = [ c \in Conns |-> FALSE ]
    /\ lastUpload = << >>
    /\ lastGet = NoGet

(* ---------------------- POST /backstop: up to the await ---------------- *)

\* The handler returns after sending resp.
Return(c, resp) ==
    /\ responses' = [ responses EXCEPT ![c] = @ \o resp ]
    /\ pc' = [ pc EXCEPT ![c] = "done" ]

\* Faulty variant: a config file that exists is reused: it is written only when there
\* is none yet.
PersistReuse(c, testCase, writeOk, opsNow) ==
    /\ ops' = [ ops EXCEPT ![c] = [ opsNow EXCEPT !.config = @ + 1 ] ]
    /\ configFile' = IF configFile = Absent
                     THEN createBackstopConfig(<< testCase >>)
                     ELSE configFile
    /\ pc' = [ pc EXCEPT ![c] = "delay" ]
    /\ UNCHANGED << responses, cfgFailed >>

\* updateBackstopConfig([testCase]) and the start of the settling delay;
\* writeOk: whether fs.writeFileSync succeeds (it throws otherwise).
Persist(c, testCase, writeOk, opsNow) ==
    /\ ops' = [ ops EXCEPT ![c] = [ opsNow EXCEPT !.config = @ + 1 ] ]
    /\ IF writeOk
       THEN /\ configFile' = createBackstopConfig(<< testCase >>)
            /\ pc' = [ pc EXCEPT ![c] = "delay" ]
            /\ UNCHANGED << responses, cfgFailed >>
       ELSE /\ cfgFailed' = [ cfgFailed EXCEPT ![c] = TRUE ]
            /\ Return(c, Catch)
            /\ UNCHANGED configFile

\* A request arrives on an idle connection: multer stores the uploaded file
\* under a fresh path, then the handler runs to its first await: validation,
\* recording, the reference check of the current path, the config write.
PostBackstop(c, in, writeOk) ==
    LET id           == nreq + 1
        uploadedFile == IF in.file = None THEN Absent ELSE [ path |-> id ]
        imageKey     == ImageKey(in.testCase, in.mode)
        referenceKey == ImageKey(in.testCase, "reference")
        store        == MapSet(uploadedImages, imageKey, uploadedFile)
        recorded     == [ ops[c] EXCEPT !.store = @ + 1 ]
    IN
    /\ pc[c] = "idle"
    /\ nreq < MaxReqs
    /\ \A d \in Before(c) : pc[d] # "idle"
    /\ nreq' = id
    /\ req' = [ req EXCEPT ![c] = [ id |-> id ] @@ in ]
    /\ uploadDir' = IF in.file = None THEN uploadDir
                    ELSE [ uploadDir EXCEPT ![id] = in.file ]
    /\ IF MissingParams(in) \/ ~ValidMode(in.mode)
       THEN /\ Return(c, << Resp400 >>)
            /\ UNCHANGED << uploadedImages, lastUpload, configFile, ops, cfgFailed >>
       ELSE /\ uploadedImages' = store
            /\ lastUpload' = [ k \in DOMAIN lastUpload \cup {imageKey} |->
                                 IF k = imageKey THEN id ELSE lastUpload[k] ]
            /\ IF in.mode = "reference"
               THEN Persist(c, in.testCase, writeOk, recorded)
               ELSE IF in.mode = "current"
               THEN IF ~MapHas(store, referenceKey)
                    THEN /\ Return(c, << Resp400 >>)
                         /\ ops' = [ ops EXCEPT ![c] = recorded ]
                         /\ UNCHANGED << configFile, cfgFailed >>
                    ELSE Persist(c, in.testCase, writeOk, recorded)
               ELSE \* no branch of the try block is taken: nothing is sent
                    /\ pc' = [ pc EXCEPT ![c] = "done" ]
                    /\ ops' = [ ops EXCEPT ![c] = recorded ]
                    /\ UNCHANGED << responses, configFile, cfgFailed >>
    /\ UNCHANGED << testDir, referenceDir, diffImagesDir, clock, promise, child,
                    lastGet >>

(* ------------------ the settling delay and the tool launch ------------- *)

\* Faulty variant: a lock on the config file: no launch while another request's tool
\* runs or waits to be launched.
CanLaunchExclusive(c) ==
    /\ pc[c] = "delay"
    /\ \A d \in Conns \ {c} : pc[d] \notin {"delay", "awaitRun"}

\* Faulty variant: the launch waits for nothing: the tool is spawned whenever the
\* connection has no child, whether or not the upload was recorded, the config
\* persisted and the delay started.
CanLaunchUnordered(c) == child[c].state = "none"

\* What the launch waits for: the request's own settling delay.
CanLaunch(c) == pc[c] = "delay"

\* The 500 ms timer fires: runBackstopCommand spawns the tool, which reads the
\* config file as it is now, and the handler awaits the promise.
Launch(c) ==
    /\ CanLaunch(c)
    /\ pc' = [ pc EXCEPT ![c] = "awaitRun" ]
    /\ child' = [ child EXCEPT ![c] =
                    [ command |-> IF req[c].mode = "reference" THEN "reference"
                                                                ELSE "test",
                      filter  |-> req[c].testCase,
                      config  |-> configFile,
                      state   |-> "running", code |-> 0, report |-> FALSE,
                      page    |-> NoFetch, reference |-> NoPath ] ]
    /\ promise' = [ promise EXCEPT ![c] = [ NoPromise EXCEPT !.state = "pending" ] ]
    /\ ops' = [ ops EXCEPT ![c].launch = @ + 1 ]
    /\ UNCHANGED << uploadedImages, uploadDir, configFile, testDir, referenceDir,
                    diffImagesDir, clock, nreq, req, responses, cfgFailed,
                    lastUpload, lastGet >>

(* -------------------- the external tool, as the server sees it --------- *)

\* Exit codes of a tool that ran; a tool that could not be spawned closes with
\* a negative code and wrote nothing to stdout.
ExitCodes == {0, 1}
SpawnFailureCode == -2

\* The files a run may leave in bitmaps_test: a test run of a scenario writes
\* its screenshot and, when it found differences, possibly a diff image at the
\* top of the directory. A run whose filter matches no scenario of the config it
\* read writes nothing; a reference run writes to bitmaps_reference only.
ToolOutputs(ch, code) ==
    IF ch.command = "test" /\ ch.filter \in Labels(ch.config)
    THEN IF code = 0
         THEN { { ShotFile(ch.filter) } }
         ELSE { { ShotFile(ch.filter) }, { ShotFile(ch.filter), DiffFile(ch.filter) } }
    ELSE { {} }

\* The scenarios of the config the tool read that --filter selects.
Selected(ch) ==
    IF ch.config = Absent THEN {}
    ELSE { i \in DOMAIN ch.config.scenarios :
             ch.config.scenarios[i].label = ch.filter }

\* The tool's screenshot of a page it was served.
Screenshot(response) == << "screenshot", response.status, response.page >>

\* Faulty variant: a test run that passes also stores its screenshot as the reference.
CapturesOnPass(command) == TRUE

\* The command whose run stores its screenshot in bitmaps_reference.
Captures(command) == command = "reference"

\* bitmaps_reference after a run: a capturing run that exits 0 has stored the
\* screenshot of the page of the scenario it selected.
Captured(dir, ch, code) ==
    IF Captures(ch.command) /\ code = 0 /\ Selected(ch) # {}
    THEN [ dir EXCEPT ![ch.filter] = Screenshot(ch.page) ]
    ELSE dir

\* The tool opens the capture URL of the scenario it selected: a request to GET
\* /serve-image/<name> without mode, answered from the store as it is now. A
\* test run compares against the reference captured for the label.
ToolFetch(c) ==
    /\ child[c].state = "running"
    /\ child[c].page = NoFetch
    /\ \E i \in Selected(child[c]) :
          LET url == child[c].config.scenarios[i].url
          IN  child' = [ child EXCEPT
                           ![c].page = ServeImage(uploadedImages, uploadDir, url[2], None),
                           ![c].reference = IF child[c].command = "test"
                                            THEN referenceDir[child[c].filter]
                                            ELSE NoPath ]
    /\ UNCHANGED << uploadedImages, uploadDir, configFile, testDir, referenceDir,
                    diffImagesDir, clock, nreq, req, pc, promise, responses, ops,
                    cfgFailed, lastUpload, lastGet >>

(* --------------- POST /backstop: after await runBackstopCommand -------- *)

\* The rest of the handler once the promise is rejected: the catch block.
Rejected(c) ==
    /\ promise' = [ promise EXCEPT ![c].state = "rejected" ]
    /\ Return(c, Catch)
    /\ UNCHANGED << diffImagesDir, clock, ops >>

\* The rest of the handler once the promise is resolved; dir is bitmaps_test
\* as the tool left it.
Resolved(c, code, dir) ==
    /\ promise' = [ promise EXCEPT ![c] =
                      [ state |-> "resolved", hasDifferences |-> HasDifferences(code) ] ]
    /\ IF req[c].mode = "reference"
       THEN /\ Return(c, << RespReference >>)
            /\ UNCHANGED << diffImagesDir, clock, ops >>
       ELSE \E diffFile \in FindResults(dir, req[c].testCase), thrown \in Throws :
              LET backstopResult == IF promise'[c].hasDifferences THEN "failed"
                                                                   ELSE "passed"
                  diffInfo == findAndCopyDiffImage(req[c].testCase, diffFile,
                                                   clock, thrown)
              IN  /\ diffImagesDir' = diffImagesDir \cup diffInfo.written
                  /\ clock' = clock + Cardinality(diffInfo.written)
                  /\ ops' = [ ops EXCEPT
                                ![c].locate = @ + 1,
                                ![c].raised = IF Raises(diffFile, thrown) THEN @ + 1
                                                                          ELSE @ ]
                  /\ IF diffInfo.threw
                     THEN Return(c, Catch)
                     ELSE Return(c, << RespCurrent(backstopResult, diffInfo) >>)

\* The child emits 'error' (it could not be spawned, so it fetched nothing):
\* child.on('error', reject).
ChildError(c) ==
    /\ child[c].state = "running"
    /\ child[c].page = NoFetch
    /\ child' = [ child EXCEPT ![c].state = "errored" ]
    /\ IF Pending(promise[c].state)
       THEN Rejected(c)
       ELSE UNCHANGED << promise, responses, pc, diffImagesDir, clock, ops >>
    /\ UNCHANGED << uploadedImages, uploadDir, configFile, testDir, referenceDir,
                    nreq, req, cfgFailed, lastUpload, lastGet >>

\* The child emits 'close' with its exit code, after all of stdout was read;
\* report: whether stdout includes 'report'; out: the files the run wrote.
ChildClose(c, code, report, out) ==
    /\ child' = [ child EXCEPT ![c].state = "closed", ![c].code = code,
                                ![c].report = report ]
    /\ testDir' = testDir \cup out
    /\ IF Pending(promise[c].state)
       THEN IF Resolves(child[c].command, code, report)
            THEN Resolved(c, code, testDir \cup out)
            ELSE Rejected(c)
       ELSE UNCHANGED << promise, responses, pc, diffImagesDir, clock, ops >>
    /\ UNCHANGED << uploadedImages, uploadDir, configFile, nreq, req,
                    cfgFailed, lastUpload, lastGet >>

\* The tool ran and exits, after it captured the page of the scenario it
\* selected, if it selected one.
ToolExit(c) ==
    /\ child[c].state = "running"
    /\ Selected(child[c]) # {} => child[c].page # NoFetch
    /\ \E code \in ExitCodes, report \in BOOLEAN :
         /\ \E out \in ToolOutputs(child[c], code) : ChildClose(c, code, report, out)
         /\ referenceDir' = Captured(referenceDir, child[c], code)

\* The child that could not be spawned closes, after its 'error' event.
SpawnFailureClose(c) ==
    /\ child[c].state = "errored"
    /\ ChildClose(c, SpawnFailureCode, FALSE, {})
    /\ UNCHANGED referenceDir

\* The request is over: its response was sent, its child is gone, and the
\* connection is free for the next request.
Finish(c) ==
    /\ pc[c] = "done"
    /\ child[c].state \in {"none", "closed"}
    /\ pc' = [ pc EXCEPT ![c] = "idle" ]
    /\ req' = [ req EXCEPT ![c] = NoInput ]
    /\ promise' = [ promise EXCEPT ![c] = NoPromise ]
    /\ child' = [ child EXCEPT ![c] = NoChild ]
    /\ responses' = [ responses EXCEPT ![c] = << >> ]
    /\ ops' = [ ops EXCEPT ![c] = NoOps ]
    /\ cfgFailed' = [ cfgFailed EXCEPT ![c] = FALSE ]
    /\ UNCHANGED << uploadedImages, uploadDir, configFile, testDir, referenceDir,
                    diffImagesDir, clock, nreq, lastUpload, lastGet >>

(* --------------------------- GET /serve-image -------------------------- *)

ServeModes == {None, "reference", "current"}

GetServeImage(testCase, mode) ==
    /\ lastGet' = [ testCase |-> testCase, mode |-> mode,
                    response |-> ServeImage(uploadedImages, uploadDir, testCase, mode) ]
    /\ UNCHANGED << uploadedImages, uploadDir, configFile, testDir, referenceDir,
                    diffImagesDir, clock, nreq, req, pc, promise, child, responses,
                    ops, cfgFailed, lastUpload >>

(* ------------------------------- Next ---------------------------------- *)

\* The steps of the request on connection c, which is one of inputs.
Post(c, inputs) ==
    \/ \E in \in inputs, writeOk \in BOOLEAN : PostBackstop(c, in, writeOk)
    \/ Launch(c)
    \/ ToolFetch(c)
    \/ ChildError(c)
    \/ ToolExit(c)
    \/ SpawnFailureClose(c)
    \/ Finish(c)

Get == \E t \in TestCases, mode \in ServeModes : GetServeImage(t, mode)

\* POST /backstop requests, overlapping as the connections allow. No step of
\* them reads an uploaded file (the tool's verdict is its own), so one image
\* stands for all.
Next == \E c \in Conns : Post(c, Inputs({"imgA"}))

Spec == Init /\ [][Next]_vars

\* The event loop runs a timer that is due, and every launched subprocess
\* eventually emits 'close' or 'error'.
Fairness ==
    \A c \in Conns : /\ WF_vars(Launch(c))
                      /\ WF_vars(ToolExit(c) \/ ChildError(c))

\* Overlapping requests of clients that work on one test case: whether a
\* request is answered depends on its own timer and child, not on the name.
NextLive == \E c \in Conns : Post(c, { in \in Inputs({"imgA"}) : in.testCase # "home" })

SpecLive == Init /\ [][NextLive]_vars /\ Fairness

\* The validated requests of clients that work on login, uploading either
\* image in either mode, and of one that sets the reference of another test
\* case.
WorkInputs ==
    { in \in ValidInputs(Images) :
        in.testCase = "login" \/ (in.mode = "reference" /\ in.file = "imgA") }

\* Validated uploads of either image, one request after the other, and clients
\* of GET /serve-image between their steps. The Map changes in PostBackstop
\* alone, and only for a request that passed validation, so neither overlap nor
\* refused requests add a state a GET can tell apart.
NextServe == Post("c1", WorkInputs) \/ Get

SpecServe == Init /\ [][NextServe]_vars

\* No other request is in progress, and no child of another request is left.
Alone(c) ==
    \A d \in Conns \ {c} : /\ pc[d] \in {"idle", "done"}
                            /\ child[d].state \in {"none", "closed"}

\* Requests that do not overlap in time: a request is received only when the
\* one before it is over. The connection of a request that is over keeps its
\* request and response until it is reused.
NextSeq == \E c \in Conns : Alone(c) /\ Post(c, WorkInputs)

SpecSeq == Init /\ [][NextSeq]_vars

(* ------------------------------- claims -------------------------------- *)

\* The step in which the request of connection c is received and its handler
\* runs to its first await.
Arrives(c) == pc[c] = "idle" /\ pc'[c] # "idle"

\* A request the validation must refuse, in the words of the contract.
Invalid(in) ==
    \/ in.testCase = ""
    \/ in.mode = ""
    \/ in.file = None
    \/ in.mode \notin {"reference", "current"}

ReferenceKey(testCase) == << testCase, "reference" >>

\* C1: a request with testCase or mode empty, the file missing, or mode not in
\* {reference, current} is answered 400 with success:false, once, and leaves
\* the Image Store, the config file, the launched subprocesses and the
\* diff-artifacts directory as they were.
C1_InvalidRequestRefused ==
    [][ \A c \in Conns :
          (Arrives(c) /\ Invalid(req'[c])) =>
             /\ responses'[c] = << [ status |-> 400, success |-> FALSE,
                                     result |-> None, diffImage |-> NoPath ] >>
             /\ pc'[c] = "done"
             /\ ops'[c] = NoOps
             /\ UNCHANGED << uploadedImages, configFile, child, diffImagesDir,
                             testDir, promise >> ]_vars

\* C1 witness: a request with mode "compare" was refused after earlier requests
\* had filled the store and written the config file.
C1_Witness ==
    \E c \in Conns :
       /\ pc[c] = "done" /\ req[c].mode = "compare"
       /\ responses[c] = << Resp400 >>
       /\ uploadedImages # << >> /\ configFile # Absent

\* C2: the tool's test command runs for test case T only if the store held the
\* key T_reference when the request was checked (and holds it still); a current
\* request for a T without a reference record is answered 400, writes no
\* config file and launches nothing.
C2_TestOnlyWithReference ==
    /\ [] ( \A c \in Conns :
              /\ (req[c].mode = "current" /\ pc[c] \in {"delay", "awaitRun"})
                    => ReferenceKey(req[c].testCase) \in DOMAIN uploadedImages
              /\ child[c].command = "test"
                    => ReferenceKey(child[c].filter) \in DOMAIN uploadedImages )
    /\ [][ \A c \in Conns :
             ( /\ Arrives(c) /\ ~Invalid(req'[c]) /\ req'[c].mode = "current"
               /\ ReferenceKey(req'[c].testCase) \notin DOMAIN uploadedImages )
             => /\ responses'[c] = << Resp400 >>
                /\ pc'[c] = "done"
                /\ ops'[c].config = 0 /\ ops'[c].launch = 0
                /\ UNCHANGED << configFile, child >> ]_vars

\* C2 witness: one request runs the test command for login, whose reference is
\* stored, while a current request for home, which has none, was refused.
C2_Witness ==
    /\ child["c1"].command = "test" /\ child["c1"].state = "running"
    /\ child["c1"].filter = "login"
    /\ req["c2"].mode = "current" /\ req["c2"].testCase = "home"
    /\ responses["c2"] = << Resp400 >> /\ child["c2"].state = "none"

\* C3 (as claimed): whatever exit code and stdout the reference subprocess
\* produces, the reference request is answered with the success response.
C3_ReferenceAlwaysSucceeds ==
    \A c \in Conns :
       (child[c].command = "reference" /\ child[c].state = "closed")
          => responses[c] = << RespReference >>

\* C3 (amended): a reference request whose subprocess closed is answered with
\* the success response exactly when the exit code is 0, whatever stdout holds;
\* on a non-zero exit code, and when the child emitted 'error', it is answered
\* 500 with success:false.
C3_ReferenceSucceedsOnExitZero ==
    \A c \in Conns :
       child[c].command = "reference" =>
          /\ child[c].state = "closed" =>
                responses[c] = << IF child[c].code = 0 THEN RespReference
                                                        ELSE Resp500 >>
          /\ child[c].state = "errored" => responses[c] = << Resp500 >>

\* C3 witness: a reference run exited 1 with a report token in stdout and the
\* request was answered 500.
C3_Witness ==
    \E c \in Conns :
       /\ child[c].command = "reference" /\ child[c].state = "closed"
       /\ child[c].code = 1 /\ child[c].report
       /\ responses[c] = << Resp500 >>

\* C4 (as claimed): in every response to a current request, a present
\* diffImage implies result "failed"; a "passed" response carries no diffImage.
C4_DiffImageOnlyOnFailure ==
    \A c \in Conns : \A i \in DOMAIN responses[c] :
       responses[c][i].diffImage # NoPath => responses[c][i].result = "failed"

\* The step of a GET /serve-image request (one that repeats the last request
\* with the same response changes nothing).
GetStep == lastGet' # lastGet

CurrentKey(testCase) == << testCase, "current" >>

\* The page embedding the bytes of the last upload validated for a key.
PageOfLastUpload(key) ==
    [ status |-> 200, page |-> << "base64", uploadDir[lastUpload[key]] >> ]

\* C5 (as claimed): whenever a reference record for T exists, GET
\* /serve-image/T without mode answers with the page of the most recently
\* uploaded reference image of T, as mode=reference does.
C5_NoModeServesReference ==
    [][ ( /\ GetStep /\ lastGet'.mode = None
          /\ ReferenceKey(lastGet'.testCase) \in DOMAIN lastUpload )
        => lastGet'.response = PageOfLastUpload(ReferenceKey(lastGet'.testCase)) ]_vars

\* C5 (amended): GET /serve-image/T without mode answers with the page of the
\* most recently uploaded current image of T when a current record for T
\* exists, and with that of the most recently uploaded reference image only
\* when T has a reference record and no current record.
C5_NoModeServesCurrentFirst ==
    [][ ( /\ GetStep /\ lastGet'.mode = None
          /\ ReferenceKey(lastGet'.testCase) \in DOMAIN lastUpload )
        => lastGet'.response =
             IF CurrentKey(lastGet'.testCase) \in DOMAIN lastUpload
             THEN PageOfLastUpload(CurrentKey(lastGet'.testCase))
             ELSE PageOfLastUpload(ReferenceKey(lastGet'.testCase)) ]_vars

\* C5 witness: login has a reference and a current record with different
\* bytes, and the last GET, without mode, was answered with the current image.
C5_Witness ==
    /\ lastGet.testCase = "login" /\ lastGet.mode = None
    /\ ReferenceKey("login") \in DOMAIN uploadedImages
    /\ CurrentKey("login") \in DOMAIN uploadedImages
    /\ lastGet.response = PageOfLastUpload(CurrentKey("login"))
    /\ lastGet.response # PageOfLastUpload(ReferenceKey("login"))

\* C6: the store holds, for every key, exactly the record of the last upload
\* validated for that key; no step removes a key; GET with mode=reference
\* answers with the newest reference image of T, and that answer changes only
\* when a valid reference request for T itself is recorded.
C6_UploadOverwrites ==
    /\ [] ( /\ DOMAIN uploadedImages = DOMAIN lastUpload
            /\ \A k \in DOMAIN lastUpload :
                 uploadedImages[k] = [ path |-> lastUpload[k] ] )
    /\ [][ /\ DOMAIN uploadedImages \subseteq DOMAIN uploadedImages'
           /\ ( /\ GetStep /\ lastGet'.mode = "reference"
                /\ ReferenceKey(lastGet'.testCase) \in DOMAIN lastUpload )
              => lastGet'.response = PageOfLastUpload(ReferenceKey(lastGet'.testCase))
           /\ \A t \in TestCases :
                ServeImage(uploadedImages', uploadDir', t, "reference")
                   # ServeImage(uploadedImages, uploadDir, t, "reference")
                => \E c \in Conns : /\ Arrives(c) /\ ~Invalid(req'[c])
                                    /\ req'[c].testCase = t
                                    /\ req'[c].mode = "reference" ]_vars

\* C6 witness: login's reference was uploaded twice, imgB then imgA, nothing
\* else is stored, and the last GET with mode=reference returned imgA.
C6_Witness ==
    /\ DOMAIN uploadedImages = { ReferenceKey("login") }
    /\ uploadDir[1] = "imgB" /\ uploadDir[2] = "imgA"
    /\ uploadedImages[ReferenceKey("login")] = [ path |-> 2 ]
    /\ lastGet.testCase = "login" /\ lastGet.mode = "reference"
    /\ lastGet.response = [ status |-> 200, page |-> << "base64", "imgA" >> ]

\* C7 (as claimed): for both commands, the promise is rejected exactly when
\* the exit code is non-zero and stdout has no report token; a rejection is
\* answered 500; a resolved result has hasDifferences exactly when the exit
\* code is non-zero.
C7_OnePolicyForBothCommands ==
    \A c \in Conns :
       child[c].state = "closed" =>
          /\ promise[c].state \in {"resolved", "rejected"}
          /\ promise[c].state = "rejected"
                <=> (child[c].code # 0 /\ ~child[c].report)
          /\ promise[c].state = "rejected" => responses[c] = << Resp500 >>
          /\ promise[c].state = "resolved"
                => promise[c].hasDifferences = (child[c].code # 0)

\* C7 (amended): the report token excuses a non-zero exit of the test command
\* only. The promise is rejected exactly when the exit code is non-zero and
\* either the command is reference or stdout has no report token; a rejection
\* is answered 500; a resolved result has hasDifferences exactly when the exit
\* code is non-zero.
C7_ReportTokenExcusesTestOnly ==
    \A c \in Conns :
       child[c].state = "closed" =>
          /\ promise[c].state \in {"resolved", "rejected"}
          /\ promise[c].state = "rejected"
                <=> ( /\ child[c].code # 0
                      /\ (child[c].command = "reference" \/ ~child[c].report) )
          /\ promise[c].state = "rejected" => responses[c] = << Resp500 >>
          /\ promise[c].state = "resolved"
                => promise[c].hasDifferences = (child[c].code # 0)

\* C7 witness: a reference run and a test run both exited 1 with a report
\* token in stdout: the first was rejected, the second resolved with
\* differences.
C7_Witness ==
    /\ child["c1"].command = "reference" /\ child["c1"].state = "closed"
    /\ child["c1"].code = 1 /\ child["c1"].report
    /\ promise["c1"].state = "rejected"
    /\ child["c2"].command = "test" /\ child["c2"].state = "closed"
    /\ child["c2"].code = 1 /\ child["c2"].report
    /\ promise["c2"] = [ state |-> "resolved", hasDifferences |-> TRUE ]

\* C8: within one request the store is written, the config file persisted,
\* the tool launched and the diff located at most once each; at most one
\* response is sent, none before the handler is over and exactly one once it
\* is, also when the child emits both 'error' and 'close'.
C8_EveryOperationOnce ==
    \A c \in Conns :
       /\ ops[c].store <= 1 /\ ops[c].config <= 1
       /\ ops[c].launch <= 1 /\ ops[c].locate <= 1
       /\ Len(responses[c]) <= 1
       /\ pc[c] \in {"idle", "delay", "awaitRun"} => Len(responses[c]) = 0
       /\ pc[c] = "done" => Len(responses[c]) = 1

\* C8 witness: a child emitted 'error' and then 'close', and its request has
\* one response.
C8_Witness ==
    \E c \in Conns :
       /\ child[c].state = "closed" /\ child[c].code = SpawnFailureCode
       /\ ops[c].launch = 1 /\ Len(responses[c]) = 1

\* C9: a request whose config write threw, whose child emitted 'error', or
\* whose promise was rejected is over and was answered 500 with success:false,
\* and with nothing else.
C9_FailureAnswered500 ==
    \A c \in Conns :
       (cfgFailed[c] \/ child[c].state = "errored" \/ promise[c].state = "rejected")
          => /\ pc[c] = "done"
             /\ responses[c] = << [ status |-> 500, success |-> FALSE,
                                    result |-> None, diffImage |-> NoPath ] >>

\* C9 witness: one request's config write threw and another's child emitted
\* 'error'; both were answered 500.
C9_Witness ==
    /\ cfgFailed["c1"] /\ responses["c1"] = << Resp500 >>
    /\ child["c2"].state = "errored" /\ responses["c2"] = << Resp500 >>

\* C10: nothing excludes overlapping requests from the shared config file: a
\* request whose settling delay runs can launch its tool in every state,
\* whatever the config file holds now and whatever other tools are running.
C10_LaunchNeverExcluded ==
    \A c \in Conns : pc[c] = "delay" => ENABLED Launch(c)

\* C10 witness: the tool of the login request was launched, with filter login,
\* when the config file held home's scenario alone, which the home request had
\* written during login's settling delay; both tools are running.
C10_Witness ==
    /\ child["c1"].state = "running" /\ child["c1"].filter = "login"
    /\ Labels(child["c1"].config) = {"home"}
    /\ Labels(configFile) = {"home"}
    /\ child["c2"].state = "running" /\ child["c2"].filter = "home"

\* The request of d is the one received next after the request of c.
Consecutive(c, d) == req[c].id > 0 /\ req[d].id = req[c].id + 1

\* Both are current requests for the same test case with the same image.
SameCurrent(c, d) ==
    /\ req[c].mode = "current" /\ req[d].mode = "current"
    /\ req[c].testCase = req[d].testCase
    /\ uploadDir[req[c].id] = uploadDir[req[d].id]

\* The tool of the request of c was spawned, ran and exited.
Ran(c) == child[c].state = "closed" /\ child[c].code \in ExitCodes

\* C11: of two consecutive non-overlapping current requests for the same test
\* case with the same image whose tools ran, both tools ran the test command
\* on the same config, were served the same page and compared it against the
\* same captured reference; so a tool whose exit code and output are a function
\* of these gives both the same, and whenever both runs ended with the same
\* exit code and report token both requests were answered with the same status
\* and the same result.
C11_SameInputsSameVerdict ==
    \A c, d \in Conns :
       (Consecutive(c, d) /\ SameCurrent(c, d) /\ Ran(c) /\ Ran(d)) =>
          /\ child[c].command = "test" /\ child[d].command = "test"
          /\ child[c].filter = child[d].filter
          /\ child[c].config = child[d].config
          /\ child[c].page = child[d].page
          /\ child[c].reference = child[d].reference
          /\ (child[c].code = child[d].code /\ child[c].report = child[d].report)
                => /\ Len(responses[c]) = 1 /\ Len(responses[d]) = 1
                   /\ responses[c][1].status = responses[d][1].status
                   /\ responses[c][1].result = responses[d][1].result

\* C11 witness: after a reference of login was captured from imgA, two
\* consecutive current requests for login uploaded imgB; both tools exited 1
\* with a report token and both requests were answered "failed".
C11_Witness ==
    /\ referenceDir["login"] = << "screenshot", 200, << "base64", "imgA" >> >>
    /\ Consecutive("c1", "c2") /\ SameCurrent("c1", "c2")
    /\ req["c1"].testCase = "login" /\ uploadDir[req["c1"].id] = "imgB"
    /\ Ran("c1") /\ Ran("c2")
    /\ child["c1"].code = 1 /\ child["c2"].code = 1
    /\ child["c1"].report /\ child["c2"].report
    /\ child["c1"].reference = referenceDir["login"]
    /\ responses["c1"][1].result = "failed" /\ responses["c2"][1].result = "failed"

\* The step in which the request of c launches its tool.
Launches(c) == child[c].state = "none" /\ child'[c].state = "running"

\* C12: when requests do not overlap, at every launch the config file holds
\* exactly one scenario, whose label and capture URL name the test case of the
\* launch's --filter, which is that of the launching request; that request
\* wrote the file itself, whatever it held before, and no step changed it
\* between that write and the launch; the tool reads that file.
C12_ConfigScopedToLaunch ==
    [][ \A c \in Conns :
          /\ Launches(c) =>
                /\ Len(configFile.scenarios) = 1
                /\ configFile.scenarios[1].label = child'[c].filter
                /\ configFile.scenarios[1].url = << "serve-image", child'[c].filter >>
                /\ child'[c].filter = req[c].testCase
                /\ child'[c].config = configFile
                /\ ops[c].config = 1
          /\ (Arrives(c) /\ pc'[c] = "delay") =>
                /\ ops'[c].config = 1
                /\ Len(configFile'.scenarios) = 1
                /\ configFile'.scenarios[1].label = req'[c].testCase
          /\ (pc[c] = "delay" /\ ~Launches(c)) => configFile' = configFile ]_vars

\* C12 witness: the tool of a request for home is running on a config holding
\* home's scenario alone, after a request for login, which had written the
\* config file for login, ran its tool to the end.
C12_Witness ==
    /\ req["c1"].testCase = "login" /\ child["c1"].state = "closed"
    /\ Labels(child["c1"].config) = {"login"}
    /\ Consecutive("c1", "c2")
    /\ child["c2"].state = "running" /\ child["c2"].filter = "home"
    /\ Labels(child["c2"].config) = {"home"} /\ configFile = child["c2"].config

\* C14 (as claimed): the page the tool of a reference request fetches, when
\* no other request overlaps, embeds the image that request uploaded.
C14_ReferenceRunSeesOwnUpload ==
    \A c \in Conns :
       (child[c].command = "reference" /\ child[c].page # NoFetch) =>
          child[c].page = [ status |-> 200,
                            page |-> << "base64", uploadDir[req[c].id] >> ]

\* The request of c sends a response in this step.
Responds(c) == Len(responses'[c]) > Len(responses[c])

\* C13: a request launches its tool only after it recorded its upload and
\* persisted the config file without failure, and only from its settling
\* delay, during which it has launched and sent nothing; while its child runs
\* the request is awaiting it and has sent nothing; the response of a request
\* that launched is sent in the step of the child's 'close' event (or of its
\* 'error' event, when no subprocess could be spawned), never in another step;
\* this holds however the requests interleave.
C13_StepsInOrder ==
    /\ [] ( \A c \in Conns :
              /\ pc[c] = "delay" =>
                    /\ ops[c].store = 1 /\ ops[c].config = 1 /\ ~cfgFailed[c]
                    /\ ImageKey(req[c].testCase, req[c].mode) \in DOMAIN uploadedImages
                    /\ ops[c].launch = 0 /\ child[c].state = "none"
                    /\ responses[c] = << >>
              /\ ops[c].launch = 1 =>
                    /\ ops[c].store = 1 /\ ops[c].config = 1 /\ ~cfgFailed[c]
              /\ ops[c].config = 1 => ops[c].store = 1
              /\ child[c].state = "running" =>
                    /\ ops[c].launch = 1 /\ pc[c] = "awaitRun"
                    /\ responses[c] = << >>
              /\ (ops[c].launch = 1 /\ responses[c] # << >>) =>
                    \/ child[c].state = "closed"
                    \/ child[c].state = "errored" /\ child[c].page = NoFetch )
    /\ [][ \A c \in Conns :
             /\ Launches(c) => pc[c] = "delay" /\ pc'[c] = "awaitRun"
             /\ (Responds(c) /\ ops[c].launch = 1) =>
                   /\ child[c].state = "running"
                   /\ child'[c].state \in {"closed", "errored"} ]_vars

\* C13 witness: two requests overlap; the later one went through all its steps
\* and was answered after its tool closed, while the tool of the earlier one,
\* launched after its own record, config write and delay, is still running.
C13_Witness ==
    /\ req["c1"].id = 1 /\ req["c2"].id = 2
    /\ child["c1"].state = "running" /\ child["c1"].page # NoFetch
    /\ pc["c1"] = "awaitRun" /\ responses["c1"] = << >>
    /\ ops["c1"] = [ NoOps EXCEPT !.store = 1, !.config = 1, !.launch = 1 ]
    /\ child["c2"].state = "closed" /\ child["c2"].code = 0
    /\ ops["c2"].store = 1 /\ ops["c2"].config = 1 /\ ops["c2"].launch = 1
    /\ responses["c2"] = << RespReference >>

\* The key a request records its upload under.
KeyOf(r) == << r.testCase, r.mode >>

\* C15: the step that receives a request passing validation maps T_mode to
\* that request's upload, before and whatever the request's outcome; while the
\* request is known, whether refused 400, failed 500, answered 200 or still
\* running, the key stays mapped, to that upload unless a later request for
\* the same key replaced it.
C15_ValidatedUploadRecorded ==
    /\ [][ \A c \in Conns :
             (Arrives(c) /\ ~Invalid(req'[c])) =>
                /\ KeyOf(req'[c]) \in DOMAIN uploadedImages'
                /\ uploadedImages'[KeyOf(req'[c])] = [ path |-> req'[c].id ]
                /\ uploadDir'[req'[c].id] = req'[c].file
                /\ ops'[c].store = 1 ]_vars
    /\ [] ( \A c \in Conns :
              (req[c].id > 0 /\ ~Invalid(req[c])) =>
                 /\ KeyOf(req[c]) \in DOMAIN uploadedImages
                 /\ uploadedImages[KeyOf(req[c])].path >= req[c].id
                 /\ lastUpload[KeyOf(req[c])] = req[c].id
                       => uploadedImages[KeyOf(req[c])] = [ path |-> req[c].id ] )

\* C15 witness: a current request for home was refused 400 for its missing
\* reference and a reference request for login ended in 500 because the tool
\* exited 1; the store maps home_current and login_reference to their uploads.
C15_Witness ==
    /\ req["c1"].testCase = "home" /\ req["c1"].mode = "current"
    /\ responses["c1"] = << Resp400 >>
    /\ << "home", "reference" >> \notin DOMAIN uploadedImages
    /\ uploadedImages[<< "home", "current" >>] = [ path |-> req["c1"].id ]
    /\ req["c2"].testCase = "login" /\ req["c2"].mode = "reference"
    /\ child["c2"].state = "closed" /\ child["c2"].code = 1
    /\ responses["c2"] = << Resp500 >>
    /\ uploadedImages[<< "login", "reference" >>] = [ path |-> req["c2"].id ]

\* C16 (as claimed): the test command runs for T only after a reference
\* command for T has exited 0, that is, never against a reference the tool
\* has not captured.
C16_TestOnlyAfterCapturedReference ==
    \A c \in Conns :
       child[c].command = "test" => referenceDir[child[c].filter] # NoPath

\* C16 (amended): a current request for T goes on to the config write and the
\* launch of the test command exactly when the store held T_reference as the
\* request arrived, that is, when an earlier reference request for T had
\* passed validation; how that reference request ended, and whether the tool
\* captured anything, is not consulted.
C16_TestOnlyAfterRecordedReference ==
    /\ [][ \A c \in Conns :
             (Arrives(c) /\ ~Invalid(req'[c]) /\ req'[c].mode = "current") =>
                /\ (pc'[c] = "delay" \/ cfgFailed'[c])
                      <=> ReferenceKey(req'[c].testCase) \in DOMAIN uploadedImages
                /\ ops'[c].config = 1
                      <=> ReferenceKey(req'[c].testCase) \in DOMAIN uploadedImages ]_vars
    /\ [] ( \A c \in Conns :
              child[c].command = "test" =>
                 /\ req[c].mode = "current" /\ child[c].filter = req[c].testCase
                 /\ ReferenceKey(child[c].filter) \in DOMAIN lastUpload
                 /\ lastUpload[ReferenceKey(child[c].filter)] # req[c].id )

\* C16 witness: the reference request for login ended in 500 when its config
\* write threw, nothing was captured for login, and the current request for
\* login received after it runs the test command.
C16_Witness ==
    /\ req["c1"].testCase = "login" /\ req["c1"].mode = "reference"
    /\ cfgFailed["c1"] /\ responses["c1"] = << Resp500 >>
    /\ referenceDir["login"] = NoPath
    /\ req["c2"].testCase = "login" /\ req["c2"].mode = "current"
    /\ req["c2"].id = req["c1"].id + 1
    /\ child["c2"].command = "test" /\ child["c2"].state = "running"

\* C17: whichever step of the Diff Locator raises (the directory scan, the
\* copy or the read) when a current request awaiting its tool calls it, the
\* locator returns found:false without throwing to its caller; and a current
\* request whose locator raised was answered once, with HTTP 200, success:true
\* and the verdict given by the tool's exit code, without a diffImage.
C17_LocatorFailureDegrades ==
    /\ \A c \in Conns :
          (pc[c] = "awaitRun" /\ req[c].mode = "current") =>
             \A diffFile \in FindResults(testDir \cup { DiffFile(req[c].testCase) },
                                         req[c].testCase) :
                \A thrown \in Throws :
                   Raises(diffFile, thrown) =>
                      /\ ~findAndCopyDiffImage(req[c].testCase, diffFile,
                                               clock, thrown).found
                      /\ ~findAndCopyDiffImage(req[c].testCase, diffFile,
                                               clock, thrown).threw
    /\ \A c \in Conns :
          ops[c].raised > 0 =>
             /\ ops[c].raised = 1 /\ ops[c].locate = 1
             /\ req[c].mode = "current" /\ promise[c].state = "resolved"
             /\ responses[c] =
                   << [ status |-> 200, success |-> TRUE,
                        result |-> IF child[c].code # 0 THEN "failed" ELSE "passed",
                        diffImage |-> NoPath ] >>

\* C17 witness: a test run of login exited 1 and left a diff image; the
\* locator copied it into diff_images and the read of the copy raised; the
\* request was answered 200 "failed" without a diffImage.
C17_Witness ==
    \E c \in Conns :
       /\ ops[c].raised = 1 /\ req[c].testCase = "login"
       /\ req[c].id = 2 /\ child[c].code = 1 /\ DiffFile("login") \in testDir
       /\ diffImagesDir = { DestPath("login", 0) }
       /\ responses[c] = << [ status |-> 200, success |-> TRUE,
                              result |-> "failed", diffImage |-> NoPath ] >>

\* C18: if every launched subprocess eventually emits 'close' or 'error',
\* every request that awaits its delay or its tool is eventually over, and a
\* request that is over has its response. Nothing but an event of its child
\* ends the wait of a request (no timeout, no cancellation), and while one
\* request waits for its tool another connection can have its request
\* received.
C18_AnsweredIfChildEnds ==
    /\ \A c \in Conns : (pc[c] \in {"delay", "awaitRun"}) ~> (pc[c] = "done")
    /\ [] ( \A c \in Conns :
              (req[c].id > 0 /\ pc[c] \notin {"delay", "awaitRun"})
                 => pc[c] = "done" /\ Len(responses[c]) = 1 )
    /\ [][ \A c \in Conns :
             (pc[c] = "awaitRun" /\ pc'[c] # "awaitRun") =>
                /\ child[c].state = "running"
                /\ child'[c].state \in {"closed", "errored"} ]_vars
    /\ [] ( \A c, d \in Conns :
              (pc[c] = "awaitRun" /\ pc[d] = "idle" /\ nreq < MaxReqs) =>
                 ENABLED (\E in \in Inputs({"imgA"}), writeOk \in BOOLEAN :
                             PostBackstop(d, in, writeOk)) )

\* C18 witness: the tool of the first request is still running and the
\* request unanswered, while the request received after it has been answered
\* after its own tool closed.
C18_Witness ==
    /\ req["c1"].id = 1 /\ pc["c1"] = "awaitRun"
    /\ child["c1"].state = "running" /\ responses["c1"] = << >>
    /\ req["c2"].id = 2 /\ pc["c2"] = "done"
    /\ child["c2"].state = "closed" /\ Len(responses["c2"]) = 1
    /\ responses["c2"][1].status = 200

====
